---------------------------- MODULE Spec2Model ----------------------------
(***************************************************************************)
(* 13Primes: the unified 364-degree system.                                *)
(*                                                                         *)
(* The library is a set of pure functions over immutable tables.  Each     *)
(* function is an operator below, computed the way the TypeScript source   *)
(* computes it (JavaScript's truncating %, Math.floor, the EPSILON snap).  *)
(* A behaviour is one call: Init picks the function and its arguments,     *)
(* the function's action evaluates it and stores what the caller sees.     *)
(*                                                                         *)
(* Degrees are fixed-point numbers of two limbs, [g, e]: g counts grid     *)
(* units, Unit to the degree, and e counts fine units, FinePerEps to the   *)
(* source's EPSILON of 1e-9 degree.  The fine limb carries offsets of a    *)
(* few EPSILON, far below one grid unit, so numbers compare limb by limb.  *)
(* Unit is a multiple of 90, of 91 and of 1000: the factor 364/360 = 91/90 *)
(* applies exactly to whole and half degrees, the aspect catalog's angles  *)
(* (given to a thousandth of a degree) are grid points, and so are their   *)
(* tropical preimages.  A second application of 91/90 rounds down to the   *)
(* grid, by less than 1/Unit degree.                                       *)
(***************************************************************************)
EXTENDS Integers, Sequences, FiniteSets, TLC

VARIABLES pc, op, arg, res

vars == <<pc, op, arg, res>>

-----------------------------------------------------------------------------
(* Bounds of the model *)

\* grid points per degree on the tropical input grid
Res == 2
\* fine points per EPSILON on the fine input grid
FineRes == 4
\* fine offsets offered: -MaxFine .. MaxFine fine points
MaxFine == 10
\* tropical arguments range over -MaxTropDeg .. MaxTropDeg degrees
MaxTropDeg == 800
\* whole turns added in the periodicity check: -MaxTurns .. MaxTurns
MaxTurns == 3
\* arguments of the house queries range over -MaxHouseDeg .. MaxHouseDeg degrees
MaxHouseDeg == 400
\* ascendants of the house queries: multiples of AscStep degrees, -MaxAscK .. MaxAscK
AscStep == 15
MaxAscK == 30
\* digits offered to convertTrit: -MaxTrit .. MaxTrit
MaxTrit == 4
\* integers offered to toBijectiveTernary: -MaxNeg .. MaxN
MaxN == 10000
MaxNeg == 5
\* encodings compared for distinctness: those of 1 .. MaxPeer
MaxPeer == 500
\* digit sequences offered to fromBijectiveTernary: lengths 0 .. MaxDigits
MaxDigits == 4
\* rotations are offered -MaxSteps .. MaxSteps steps
MaxSteps == 7
\* separations offered to calculateAspect: SepRes grid points per degree of the
\* 364 circle, SepTurns whole turns either way
SepRes == 4
SepTurns == 2
\* first arguments of calculateAspect: multiples of BaseStep tropical degrees,
\* -MaxBaseK .. MaxBaseK
BaseStep == 75
MaxBaseK == 6
\* charts offered to calculateAllAspects364: 0 .. MaxPlanets planets
MaxPlanets == 3
\* 13-moon years offered: those beginning within YearSpan years of 1900, 2000
\* and 2100, and of each the days 0 .. MaxCycleDay from its April 1
YearSpan == 4
MaxCycleDay == 366
\* dates before the calendar's epoch: of the years down to MaxBeforeEpoch years
\* before it
MaxBeforeEpoch == 4

-----------------------------------------------------------------------------
(* Program constants and the arithmetic of the source *)

PRIME_CIRCLE == 364
PHASE_SIZE == 28
NUM_PHASES == 13

\* grid units per degree, and the tropical and unified grid steps
Unit == 90 * 91 * 100
TropStep == Unit \div Res
PrimeStep == Unit \div (90 * Res)
\* fine units per EPSILON, and the fine grid step
FinePerEps == 90 * 90 * FineRes
FineStep == FinePerEps \div FineRes

\* the number of g grid units and e fine units
Num(g, e) == [g |-> g, e |-> e]
\* n degrees
Deg(n) == Num(n * Unit, 0)
\* EPSILON = 1e-9 degree
EPSILON == Num(0, FinePerEps)

Plus(x, y) == Num(x.g + y.g, x.e + y.e)
Minus(x, y) == Num(x.g - y.g, x.e - y.e)
Neg(x) == Num(-x.g, -x.e)
Less(x, y) == x.g < y.g \/ (x.g = y.g /\ x.e < y.e)
Leq(x, y) == x = y \/ Less(x, y)

\* Math.abs
Abs(x) == IF Less(x, Deg(0)) THEN Neg(x) ELSE x

\* Math.floor(x / n) for n > 0 degrees: below a grid point by a fine offset
\* is below it
Floor(x, n) == IF x.e < 0 THEN (x.g - 1) \div (n * Unit) ELSE x.g \div (n * Unit)

\* JavaScript's x % n for n > 0 degrees: the remainder has the sign of x
JsRem(x, n) ==
  LET m == n * Unit
      pos(y) == IF y.e < 0 /\ y.g % m = 0 THEN Num(m, y.e) ELSE Num(y.g % m, y.e)
  IN  IF Less(x, Deg(0)) THEN Neg(pos(Neg(x))) ELSE pos(x)

\* the idiom ((x % n) + n) % n
WrapInto(x, n) == JsRem(Plus(JsRem(x, n), Deg(n)), n)

\* x * num / den without forming the product of the grid limb; exact when both
\* limbs of x * num are multiples of den
MulDiv(x, num, den) ==
  LET scale(a) == (a \div den) * num + ((a % den) * num) \div den
  IN  Num(scale(x.g), scale(x.e))

\* |x| < EPSILON
WithinEpsilon(x) == Less(Abs(x), EPSILON)

-----------------------------------------------------------------------------
(* Coordinate conversions: 360 -> 364, signs, houses *)

SALVI_SIGNS ==
  << [name |-> "Ares Prime", startDegree |-> 0,   endDegree |-> 28,  tribonacci |-> 1],
     [name |-> "Vectoris",   startDegree |-> 28,  endDegree |-> 56,  tribonacci |-> 1],
     [name |-> "Solaris",    startDegree |-> 56,  endDegree |-> 84,  tribonacci |-> 2],
     [name |-> "Liegis",     startDegree |-> 84,  endDegree |-> 112, tribonacci |-> 4],
     [name |-> "Alphais",    startDegree |-> 112, endDegree |-> 140, tribonacci |-> 7],
     [name |-> "Micronis",   startDegree |-> 140, endDegree |-> 168, tribonacci |-> 13],
     [name |-> "Nexus",      startDegree |-> 168, endDegree |-> 196, tribonacci |-> 24],
     [name |-> "Alchemis",   startDegree |-> 196, endDegree |-> 224, tribonacci |-> 44],
     [name |-> "Onyxis",     startDegree |-> 224, endDegree |-> 252, tribonacci |-> 81],
     [name |-> "Amalgamis",  startDegree |-> 252, endDegree |-> 280, tribonacci |-> 149],
     [name |-> "Quintis",    startDegree |-> 280, endDegree |-> 308, tribonacci |-> 274],
     [name |-> "Fallenis",   startDegree |-> 308, endDegree |-> 336, tribonacci |-> 504],
     [name |-> "Optimis",    startDegree |-> 336, endDegree |-> 364, tribonacci |-> 927] >>

HOUSE_NAMES ==
  << "Prima", "Vector Prime", "Solus Prime", "Liege Maximo", "Alpha Trion",
     "Micronus Prime", "Nexus Prime", "Alchemist Prime", "Onyx Prime",
     "Amalgamous Prime", "Quintus Prime", "The Fallen", "Optimus Prime" >>

\* tropicalToPrime without the + 360 and + 364 corrections of the truncating %
tropicalToPrime_truncRem(tropicalDegree) ==
  LET normalized360 == JsRem(tropicalDegree, 360)
      scaled == IF Less(normalized360, Deg(0))
                THEN Neg(MulDiv(Neg(normalized360), PRIME_CIRCLE, 360))
                ELSE MulDiv(normalized360, PRIME_CIRCLE, 360)
  IN  JsRem(scaled, PRIME_CIRCLE)

\* tropicalToPrime taking its argument for a position on the 364 circle already
tropicalToPrime_unscaled(tropicalDegree) == WrapInto(tropicalDegree, PRIME_CIRCLE)

\* tropicalToPrime normalising its argument on the 364 circle instead of the 360 one
tropicalToPrime_mod364(tropicalDegree) ==
  LET normalized == WrapInto(tropicalDegree, PRIME_CIRCLE)
      scaled == MulDiv(normalized, PRIME_CIRCLE, 360)
  IN  WrapInto(scaled, PRIME_CIRCLE)

tropicalToPrime(tropicalDegree) ==
  LET normalized360 == WrapInto(tropicalDegree, 360)
      scaled == MulDiv(normalized360, PRIME_CIRCLE, 360)
      prime == IF WithinEpsilon(Minus(scaled, Deg(PRIME_CIRCLE))) THEN Deg(0) ELSE scaled
  IN  WrapInto(prime, PRIME_CIRCLE)

\* what getSalviSignFromPrimeDegree returns for a sign index and a normalized degree
SalviSignResult(signIndex, normalizedDegree) ==
  [ signNumber   |-> signIndex + 1,
    signName     |-> SALVI_SIGNS[signIndex + 1].name,
    degreeInSign |-> JsRem(normalizedDegree, PHASE_SIZE),
    tribonacci   |-> SALVI_SIGNS[signIndex + 1].tribonacci ]

\* getSalviSignFromPrimeDegree with Math.round in the place of Math.floor
getSalviSignFromPrimeDegree_round(primeDegree) ==
  LET wrapped == WrapInto(primeDegree, PRIME_CIRCLE)
      normalizedDegree == IF WithinEpsilon(Minus(wrapped, Deg(PRIME_CIRCLE)))
                          THEN Deg(0) ELSE wrapped
      rounded == Floor(Plus(Plus(normalizedDegree, normalizedDegree), Deg(PHASE_SIZE)),
                       2 * PHASE_SIZE)
      signIndex == IF rounded >= NUM_PHASES THEN NUM_PHASES - 1
                   ELSE IF rounded < 0 THEN 0 ELSE rounded
  IN  SalviSignResult(signIndex, normalizedDegree)

getSalviSignFromPrimeDegree(primeDegree) ==
  LET wrapped == WrapInto(primeDegree, PRIME_CIRCLE)
      normalizedDegree == IF WithinEpsilon(Minus(wrapped, Deg(PRIME_CIRCLE)))
                          THEN Deg(0) ELSE wrapped
      floored == Floor(normalizedDegree, PHASE_SIZE)
      signIndex == IF floored >= NUM_PHASES THEN NUM_PHASES - 1
                   ELSE IF floored < 0 THEN 0 ELSE floored
  IN  SalviSignResult(signIndex, normalizedDegree)

\* getPrimeCusps stepping by the tropical sign width 30 instead of PHASE_SIZE
getPrimeCusps_step30(tropicalAscendant) ==
  LET ascPrime == tropicalToPrime(tropicalAscendant)
  IN  [ i \in 1..NUM_PHASES |-> WrapInto(Plus(ascPrime, Deg((i - 1) * 30)), PRIME_CIRCLE) ]

\* the array is 0-based in the source: cusps[i] there is element i + 1 here
getPrimeCusps(tropicalAscendant) ==
  LET ascPrime == tropicalToPrime(tropicalAscendant)
  IN  [ i \in 1..NUM_PHASES |->
          WrapInto(Plus(ascPrime, Deg((i - 1) * PHASE_SIZE)), PRIME_CIRCLE) ]

\* houseCusps[0] of an empty array is undefined, and tropicalToPrime(undefined) is
\* NaN: every comparison with it is false, house is NaN and the name falls back
\* to the template string.  Nothing is thrown.
getHouseFromDegree(degree, houseCusps) ==
  LET primeDegree == tropicalToPrime(degree)
  IN  IF Len(houseCusps) = 0
      THEN [ threw |-> FALSE, houseIsNaN |-> TRUE, houseName |-> "House NaN",
             alsoIn13th |-> FALSE, primeDegree |-> primeDegree ]
      ELSE LET ascendantPrime == tropicalToPrime(houseCusps[1])
               relativePos == WrapInto(Minus(primeDegree, ascendantPrime), PRIME_CIRCLE)
               floored == Floor(relativePos, PHASE_SIZE)
               houseIndex == IF floored >= NUM_PHASES THEN NUM_PHASES - 1 ELSE floored
           IN  [ threw |-> FALSE, houseIsNaN |-> FALSE, house |-> houseIndex + 1,
                 houseName |-> HOUSE_NAMES[houseIndex + 1],
                 alsoIn13th |-> (houseIndex + 1 = 13), primeDegree |-> primeDegree ]

\* isIn13thHouse taking houseCusps[0] as the unified degree it already is
isIn13thHouse_unifiedCusp(degree, houseCusps) ==
  IF Len(houseCusps) < NUM_PHASES
  THEN [ threw |-> FALSE, value |-> FALSE ]
  ELSE LET relativePos == WrapInto(Minus(tropicalToPrime(degree), houseCusps[1]),
                                   PRIME_CIRCLE)
       IN  [ threw |-> FALSE,
             value |-> (Leq(Deg(12 * PHASE_SIZE), relativePos)
                          /\ Less(relativePos, Deg(13 * PHASE_SIZE))) ]

isIn13thHouse(degree, houseCusps) ==
  IF Len(houseCusps) < NUM_PHASES
  THEN [ threw |-> FALSE, value |-> FALSE ]
  ELSE LET primeDegree == tropicalToPrime(degree)
           ascendantPrime == tropicalToPrime(houseCusps[1])
           relativePos == WrapInto(Minus(primeDegree, ascendantPrime), PRIME_CIRCLE)
           house13Start == Deg(12 * PHASE_SIZE)
           house13End == Deg(13 * PHASE_SIZE)
       IN  [ threw |-> FALSE,
             value |-> (Leq(house13Start, relativePos) /\ Less(relativePos, house13End)) ]

-----------------------------------------------------------------------------
(* Ternary operations: the three representations, GF(3), bijective base 3 *)

getTritMeaning(value, representation) ==
  CASE representation = "A" ->
         (IF value = -1 THEN "False" ELSE IF value = 0 THEN "Neutral" ELSE "True")
    [] representation = "B" ->
         (IF value = 0 THEN "False" ELSE IF value = 1 THEN "Neutral" ELSE "True")
    [] representation = "C" ->
         (IF value = 1 THEN "False" ELSE IF value = 2 THEN "Neutral" ELSE "True")
    [] OTHER -> "Neutral"

\* what convertTrit returns (threw = FALSE) or the Error it throws (threw = TRUE)
ConversionResult(value, from, to, converted, bijection) ==
  [ threw |-> FALSE,
    original |-> [value |-> value, representation |-> from,
                  meaning |-> getTritMeaning(value, from)],
    converted |-> [value |-> converted, representation |-> to,
                   meaning |-> getTritMeaning(converted, to)],
    bijection |-> bijection ]

\* convertTrit with the A -> C shift taken for the A -> B one
convertTrit_shiftAC(value, from, to) ==
  CASE from = to -> ConversionResult(value, from, to, value, "identity")
    [] from = "A" /\ to = "B" -> ConversionResult(value, from, to, value + 1, "f(a) = a + 1")
    [] from = "A" /\ to = "C" -> ConversionResult(value, from, to, value + 1, "f(a) = a + 2")
    [] from = "B" /\ to = "A" -> ConversionResult(value, from, to, value - 1, "f(b) = b - 1")
    [] from = "B" /\ to = "C" -> ConversionResult(value, from, to, value + 1, "f(b) = b + 1")
    [] from = "C" /\ to = "A" -> ConversionResult(value, from, to, value - 2, "f(c) = c - 2")
    [] from = "C" /\ to = "B" -> ConversionResult(value, from, to, value - 1, "f(c) = c - 1")
    [] OTHER -> [threw |-> TRUE, message |-> "Invalid conversion"]

\* the if / else-if chain of the source: the first branch that matches decides
convertTrit(value, from, to) ==
  IF from = to THEN ConversionResult(value, from, to, value, "identity")
  ELSE IF from = "A" /\ to = "B"
       THEN ConversionResult(value, from, to, value + 1, "f(a) = a + 1")
  ELSE IF from = "A" /\ to = "C"
       THEN ConversionResult(value, from, to, value + 2, "f(a) = a + 2")
  ELSE IF from = "B" /\ to = "A"
       THEN ConversionResult(value, from, to, value - 1, "f(b) = b - 1")
  ELSE IF from = "B" /\ to = "C"
       THEN ConversionResult(value, from, to, value + 1, "f(b) = b + 1")
  ELSE IF from = "C" /\ to = "A"
       THEN ConversionResult(value, from, to, value - 2, "f(c) = c - 2")
  ELSE IF from = "C" /\ to = "B"
       THEN ConversionResult(value, from, to, value - 1, "f(c) = c - 1")
  ELSE [threw |-> TRUE, message |-> "Invalid conversion"]

\* JavaScript's a % m on integers, m > 0: the remainder has the sign of a
IntRem(a, m) == IF a >= 0 THEN a % m ELSE -((-a) % m)

\* what the balanced operations return; the constant fields representation
\* ('A') and constantTime (true) are left out
OperationResult(a, b, operation, result) ==
  [operands |-> [a |-> a, b |-> b], operation |-> operation, result |-> result]

ternaryAdd(a, b) ==
  OperationResult(a, b, "ternary_addition", IntRem((a + 1) + (b + 1), 3) - 1)

ternaryMultiply(a, b) ==
  OperationResult(a, b, "ternary_multiplication", IntRem((a + 1) * (b + 1), 3) - 1)

\* ternaryRotate with steps % 3 left as JavaScript's remainder, negative for
\* negative steps
ternaryRotate_truncSteps(value, steps) ==
  LET normalizedSteps == IntRem(steps, 3)
      rotated == IntRem((value + 1) + normalizedSteps, 3)
  IN  OperationResult(value, steps, "ternary_rotation", rotated - 1)

ternaryRotate(value, steps) ==
  LET normalizedSteps == IntRem(IntRem(steps, 3) + 3, 3)
      rotated == IntRem((value + 1) + normalizedSteps, 3)
  IN  OperationResult(value, steps, "ternary_rotation", rotated - 1)

GF3_add(a, b) == IntRem(a + b, 3)

\* GF3.subtract without the + 3 correction of the truncating remainder
GF3_subtract_truncRem(a, b) == IntRem(a - b, 3)

GF3_subtract(a, b) == IntRem(IntRem(a - b, 3) + 3, 3)

GF3_multiply(a, b) == IntRem(a * b, 3)

GF3_negate(a) == IntRem(3 - a, 3)

\* the while loop of toBijectiveTernary: digits is what has been unshifted so far
RECURSIVE BijectiveLoop(_, _)
BijectiveLoop(num, digits) ==
  IF num > 0
  THEN LET remainder == IntRem(num, 3)
       IN  IF remainder = 0
           THEN BijectiveLoop((num \div 3) - 1, <<3>> \o digits)
           ELSE BijectiveLoop(num \div 3, <<remainder>> \o digits)
  ELSE digits

\* the same loop with a zero remainder emitted as 3 but without the borrow
RECURSIVE BijectiveLoop_noBorrow(_, _)
BijectiveLoop_noBorrow(num, digits) ==
  IF num > 0
  THEN LET remainder == IntRem(num, 3)
       IN  IF remainder = 0
           THEN BijectiveLoop_noBorrow(num \div 3, <<3>> \o digits)
           ELSE BijectiveLoop_noBorrow(num \div 3, <<remainder>> \o digits)
  ELSE digits

toBijectiveTernary_noBorrow(n) == IF n <= 0 THEN <<1>> ELSE BijectiveLoop_noBorrow(n, <<>>)

toBijectiveTernary(n) == IF n <= 0 THEN <<1>> ELSE BijectiveLoop(n, <<>>)

\* the for-of loop of fromBijectiveTernary: fold the digits from the left
RECURSIVE FoldDigits(_, _)
FoldDigits(result, digits) ==
  IF digits = <<>> THEN result
  ELSE FoldDigits(result * 3 + Head(digits), Tail(digits))

fromBijectiveTernary(digits) == FoldDigits(0, digits)

-----------------------------------------------------------------------------
(* Aspects on the 364 circle *)

\* m thousandths of a degree
Milli(m) == Num(m * (Unit \div 1000), 0)

\* the catalog with the septile's orb widened to 5, reaching into the sextile's
ASPECT_TYPES_wideSeptile ==
  << [type |-> "conjunction", angle |-> Milli(0),      orb |-> 8, harmonic |-> 1,
      phaseCount |-> 0, gf3 |-> 0, ternaryResonance |-> "Completion"],
     [type |-> "opposition",  angle |-> Milli(182000), orb |-> 8, harmonic |-> 2,
      phaseCount |-> 6, gf3 |-> 0, ternaryResonance |-> "Completion"],
     [type |-> "trine",       angle |-> Milli(121333), orb |-> 6, harmonic |-> 3,
      phaseCount |-> 4, gf3 |-> 1, ternaryResonance |-> "Initiation"],
     [type |-> "square",      angle |-> Milli(91000),  orb |-> 6, harmonic |-> 4,
      phaseCount |-> 3, gf3 |-> 0, ternaryResonance |-> "Completion"],
     [type |-> "sextile",     angle |-> Milli(60667),  orb |-> 4, harmonic |-> 6,
      phaseCount |-> 2, gf3 |-> 2, ternaryResonance |-> "Manifestation"],
     [type |-> "quintile",    angle |-> Milli(72800),  orb |-> 3, harmonic |-> 5,
      phaseCount |-> 3, gf3 |-> 0, ternaryResonance |-> "Completion"],
     [type |-> "septile",     angle |-> Milli(52000),  orb |-> 5, harmonic |-> 7,
      phaseCount |-> 2, gf3 |-> 2, ternaryResonance |-> "Manifestation"],
     [type |-> "novile",      angle |-> Milli(40444),  orb |-> 2, harmonic |-> 9,
      phaseCount |-> 1, gf3 |-> 1, ternaryResonance |-> "Initiation"],
     [type |-> "tredecile",   angle |-> Milli(28000),  orb |-> 2, harmonic |-> 13,
      phaseCount |-> 1, gf3 |-> 1, ternaryResonance |-> "Initiation"],
     [type |-> "quincunx",    angle |-> Milli(151667), orb |-> 3, harmonic |-> 0,
      phaseCount |-> 5, gf3 |-> 2, ternaryResonance |-> "Manifestation"] >>

\* the catalog in its declared order, which is the order Object.entries yields
ASPECT_TYPES ==
  << [type |-> "conjunction", angle |-> Milli(0),      orb |-> 8, harmonic |-> 1,
      phaseCount |-> 0, gf3 |-> 0, ternaryResonance |-> "Completion"],
     [type |-> "opposition",  angle |-> Milli(182000), orb |-> 8, harmonic |-> 2,
      phaseCount |-> 6, gf3 |-> 0, ternaryResonance |-> "Completion"],
     [type |-> "trine",       angle |-> Milli(121333), orb |-> 6, harmonic |-> 3,
      phaseCount |-> 4, gf3 |-> 1, ternaryResonance |-> "Initiation"],
     [type |-> "square",      angle |-> Milli(91000),  orb |-> 6, harmonic |-> 4,
      phaseCount |-> 3, gf3 |-> 0, ternaryResonance |-> "Completion"],
     [type |-> "sextile",     angle |-> Milli(60667),  orb |-> 4, harmonic |-> 6,
      phaseCount |-> 2, gf3 |-> 2, ternaryResonance |-> "Manifestation"],
     [type |-> "quintile",    angle |-> Milli(72800),  orb |-> 3, harmonic |-> 5,
      phaseCount |-> 3, gf3 |-> 0, ternaryResonance |-> "Completion"],
     [type |-> "septile",     angle |-> Milli(52000),  orb |-> 2, harmonic |-> 7,
      phaseCount |-> 2, gf3 |-> 2, ternaryResonance |-> "Manifestation"],
     [type |-> "novile",      angle |-> Milli(40444),  orb |-> 2, harmonic |-> 9,
      phaseCount |-> 1, gf3 |-> 1, ternaryResonance |-> "Initiation"],
     [type |-> "tredecile",   angle |-> Milli(28000),  orb |-> 2, harmonic |-> 13,
      phaseCount |-> 1, gf3 |-> 1, ternaryResonance |-> "Initiation"],
     [type |-> "quincunx",    angle |-> Milli(151667), orb |-> 3, harmonic |-> 0,
      phaseCount |-> 5, gf3 |-> 2, ternaryResonance |-> "Manifestation"] >>

ASPECT_TYPES_360 ==
  << [type |-> "conjunction", angle |-> Deg(0),   orb |-> 8],
     [type |-> "opposition",  angle |-> Deg(180), orb |-> 8],
     [type |-> "trine",       angle |-> Deg(120), orb |-> 6],
     [type |-> "square",      angle |-> Deg(90),  orb |-> 6],
     [type |-> "sextile",     angle |-> Deg(60),  orb |-> 4],
     [type |-> "quincunx",    angle |-> Deg(150), orb |-> 3] >>

\* Array.prototype.join(''): every digit by its decimal character
RECURSIVE JoinDigits(_)
JoinDigits(digits) ==
  IF digits = <<>> THEN <<>>
  ELSE <<ToString(Head(digits))>> \o JoinDigits(Tail(digits))

\* the string as the sequence of its characters; the suffix is subscript 3,
\* superscript b
bijectiveTernaryString(n) == JoinDigits(toBijectiveTernary(n)) \o << "_3", "^b" >>

\* the separation without the fold onto the shorter arc
ShorterArc_noFold(prime1, prime2) == JsRem(Abs(Minus(prime1, prime2)), PRIME_CIRCLE)

\* the separation without Math.abs
ShorterArc_signed(prime1, prime2) ==
  LET diff == JsRem(Minus(prime1, prime2), PRIME_CIRCLE)
  IN  IF Less(Deg(PRIME_CIRCLE \div 2), diff) THEN Minus(Deg(PRIME_CIRCLE), diff) ELSE diff

\* diff of calculateAspect, actualAngle of calculateAllAspects364: the distance
\* of two positions on the circle, folded onto the shorter arc
ShorterArc(prime1, prime2) ==
  LET diff == JsRem(Abs(Minus(prime1, prime2)), PRIME_CIRCLE)
  IN  IF Less(MulDiv(Deg(PRIME_CIRCLE), 1, 2), diff)
      THEN Minus(Deg(PRIME_CIRCLE), diff)
      ELSE diff

OrbDiff(diff, config) == Abs(Minus(diff, config.angle))

\* the orb test with the boundary excluded
WithinOrb_strict(diff, config) == Less(OrbDiff(diff, config), Deg(config.orb))

\* orbDiff <= config.orb
WithinOrb(diff, config) == Leq(OrbDiff(diff, config), Deg(config.orb))

NoAspect == [isNull |-> TRUE]

\* the for-of loop over ASPECT_TYPES, from entry k on: the first entry within
\* orb returns
RECURSIVE AspectLoop364(_, _)
AspectLoop364(diff, k) ==
  IF k > Len(ASPECT_TYPES) THEN NoAspect
  ELSE LET config == ASPECT_TYPES[k]
       IN  IF WithinOrb(diff, config)
           THEN [isNull |-> FALSE,
                 type |-> config.type,
                 exact |-> config.angle,
                 orb |-> OrbDiff(diff, config),
                 harmonic |-> config.harmonic,
                 ternary |-> [phaseCount |-> config.phaseCount,
                              gf3 |-> config.gf3,
                              resonance |-> config.ternaryResonance,
                              bijectiveNotation |->
                                bijectiveTernaryString(config.phaseCount)]]
           ELSE AspectLoop364(diff, k + 1)

\* the for-of loop over ASPECT_TYPES_360
RECURSIVE AspectLoop360(_, _)
AspectLoop360(diff, k) ==
  IF k > Len(ASPECT_TYPES_360) THEN NoAspect
  ELSE LET config == ASPECT_TYPES_360[k]
       IN  IF WithinOrb(diff, config)
           THEN [isNull |-> FALSE,
                 type |-> config.type,
                 exact |-> config.angle,
                 orb |-> OrbDiff(diff, config),
                 harmonic |-> 0]
           ELSE AspectLoop360(diff, k + 1)

\* diff of the 360 mode: Math.abs(((degree1 - degree2 + 180) % 360) - 180)
Diff360(degree1, degree2) ==
  Abs(Minus(JsRem(Plus(Minus(degree1, degree2), Deg(180)), 360), Deg(180)))

calculateAspect(degree1, degree2, use364) ==
  IF use364
  THEN LET prime1 == tropicalToPrime(degree1)
           prime2 == tropicalToPrime(degree2)
       IN  AspectLoop364(ShorterArc(prime1, prime2), 1)
  ELSE AspectLoop360(Diff360(degree1, degree2), 1)

\* one computed aspect, as calculateAllAspects364 pushes it
AspectEntry(p1, p2, long1, long2, aspect) ==
  LET prime1 == tropicalToPrime(long1)
      prime2 == tropicalToPrime(long2)
      actualAngle == ShorterArc(prime1, prime2)
  IN  [planet1 |-> p1,
       planet2 |-> p2,
       aspect |-> aspect.type,
       angle |-> actualAngle,
       exactAngle |-> aspect.exact,
       orb |-> aspect.orb,
       harmonic |-> aspect.harmonic,
       ternary |-> aspect.ternary]

\* the two loops with the inner one starting at the planet of the outer one
RECURSIVE AllAspectsLoop_selfPairs(_, _, _, _)
AllAspectsLoop_selfPairs(planets, i, j, aspects) ==
  IF i > Len(planets) THEN aspects
  ELSE IF j > Len(planets) THEN AllAspectsLoop_selfPairs(planets, i + 1, i + 1, aspects)
  ELSE LET aspect == calculateAspect(planets[i].long, planets[j].long, TRUE)
       IN  AllAspectsLoop_selfPairs(planets, i, j + 1,
             IF aspect.isNull THEN aspects
             ELSE Append(aspects, AspectEntry(planets[i].name, planets[j].name,
                                              planets[i].long, planets[j].long, aspect)))

\* the two for loops of calculateAllAspects364 over planetList, at planets i
\* and j (counted from 1): aspects is what has been pushed so far
RECURSIVE AllAspectsLoop(_, _, _, _)
AllAspectsLoop(planets, i, j, aspects) ==
  IF i > Len(planets) THEN aspects
  ELSE IF j > Len(planets) THEN AllAspectsLoop(planets, i + 1, i + 2, aspects)
  ELSE LET p1 == planets[i].name
           p2 == planets[j].name
           long1 == planets[i].long
           long2 == planets[j].long
           aspect == calculateAspect(long1, long2, TRUE)
       IN  AllAspectsLoop(planets, i, j + 1,
             IF aspect.isNull THEN aspects
             ELSE Append(aspects, AspectEntry(p1, p2, long1, long2, aspect)))

\* planets is the record in the order of its keys, each with its long
calculateAllAspects364(planets) == AllAspectsLoop(planets, 1, 2, <<>>)

RESONANCE_TYPES ==
  << "Completion (Return to Source)", "Initiation (New Beginning)",
     "Manifestation (Creative Expression)" >>

\* RESONANCE_TYPES[mod3], keyed 0, 1, 2: any other key reads undefined
ResonanceType(mod3) ==
  IF mod3 \in 0..2 THEN RESONANCE_TYPES[mod3 + 1] ELSE "undefined"

\* Math.round(x / n) for n > 0 degrees: the nearest integer, a half rounding up
Round(x, n) == Floor(Plus(Plus(x, x), Deg(n)), 2 * n)

\* the while loop of convertToTernary: digits is what has been unshifted so far
RECURSIVE TernaryLoop(_, _)
TernaryLoop(num, digits) ==
  IF num > 0
  THEN TernaryLoop(num \div 3, <<ToString(IntRem(num, 3))>> \o digits)
  ELSE digits

\* the string as the sequence of its characters; the suffix is subscript 3
convertToTernary(n) ==
  IF n = 0 THEN << "0", "_3" >> ELSE TernaryLoop(n, <<>>) \o << "_3" >>

\* (log2(3) - 1) * 100 = 58.496..., to two decimals
calculateInformationDensity(tritCount) ==
  [trits |-> tritCount, efficiencyGain |-> "+58.50%"]

getAspectTernarySignature(angle) ==
  LET phaseCount == Round(angle, PHASE_SIZE)
      mod3 == IntRem(phaseCount, 3)
      density == calculateInformationDensity(phaseCount)
  IN  [phaseCount |-> phaseCount,
       ternary |-> convertToTernary(phaseCount),
       bijectiveTernary |-> bijectiveTernaryString(phaseCount),
       gf3 |-> mod3,
       resonance |-> ResonanceType(mod3),
       resonanceTriple |-> [a |-> IF mod3 = 0 THEN 0 ELSE IF mod3 = 1 THEN 1 ELSE -1,
                            b |-> mod3,
                            c |-> IF mod3 = 0 THEN 3 ELSE mod3],
       informationDensity |-> density.efficiencyGain]

calculateAspectResonance(aspectAngle) ==
  LET phaseCount == Round(aspectAngle, PHASE_SIZE)
      gf3Value == IntRem(phaseCount, 3)
  IN  [gf3Value |-> gf3Value,
       resonanceType |-> ResonanceType(gf3Value),
       cosmicFrequency |-> IF phaseCount > 0
                           THEN MulDiv(Deg(PRIME_CIRCLE), 1, phaseCount)
                           ELSE Deg(PRIME_CIRCLE)]

-----------------------------------------------------------------------------
(* The 13-moon calendar anchored at April 1 *)

THIRTEEN_MOON_NEW_YEAR_MONTH == 3
THIRTEEN_MOON_NEW_YEAR_DAY == 1
DAY_OUT_OF_TIME_MONTH == 10
DAY_OUT_OF_TIME_DAY == 11
GOLDEN_RATIO_DAY == 224
MS_PER_DAY == 86400000

THIRTEEN_MOON_WEEKDAYS == << "Dali", "Seli", "Gamma", "Kali", "Alpha", "Limi", "Silio" >>

THIRTEEN_MOONS ==
  << [number |-> 1,  name |-> "Magnetic",      signature |-> "Red Dragon",
      tone |-> "Purpose - Unify",          arc |-> "Pre-phi"],
     [number |-> 2,  name |-> "Lunar",         signature |-> "White Wind",
      tone |-> "Challenge - Flow",         arc |-> "Pre-phi"],
     [number |-> 3,  name |-> "Electric",      signature |-> "Blue Night",
      tone |-> "Service - Activate",       arc |-> "Pre-phi"],
     [number |-> 4,  name |-> "Self-Existing", signature |-> "Yellow Seed",
      tone |-> "Form - Measure",           arc |-> "Pre-phi"],
     [number |-> 5,  name |-> "Overtone",      signature |-> "Red Serpent",
      tone |-> "Radiance - Empower",       arc |-> "Pre-phi"],
     [number |-> 6,  name |-> "Rhythmic",      signature |-> "White World-Bridger",
      tone |-> "Equality - Organize",      arc |-> "Pre-phi"],
     [number |-> 7,  name |-> "Resonant",      signature |-> "Blue Hand",
      tone |-> "Channel - Inspire",        arc |-> "Pre-phi"],
     [number |-> 8,  name |-> "Galactic",      signature |-> "Yellow Star",
      tone |-> "Integrity - Harmonize",    arc |-> "Pre-phi"],
     [number |-> 9,  name |-> "Solar",         signature |-> "Red Moon",
      tone |-> "Intention - Pulse",        arc |-> "Post-phi"],
     [number |-> 10, name |-> "Planetary",     signature |-> "White Dog",
      tone |-> "Manifestation - Perfect",  arc |-> "Post-phi"],
     [number |-> 11, name |-> "Spectral",      signature |-> "Blue Monkey",
      tone |-> "Liberation - Dissolve",    arc |-> "Post-phi"],
     [number |-> 12, name |-> "Crystal",       signature |-> "Yellow Human",
      tone |-> "Cooperation - Dedicate",   arc |-> "Post-phi"],
     [number |-> 13, name |-> "Cosmic",        signature |-> "Red Skywalker",
      tone |-> "Presence - Endure",        arc |-> "Post-phi"] >>

\* a time value in milliseconds since 1970-01-01T00:00Z, kept as the whole days
\* and the milliseconds into the day, 0 .. MS_PER_DAY - 1
Ms(day, ms) == [day |-> day, ms |-> ms]

\* a >= b, and a + MS_PER_DAY
MsGeq(a, b) == a.day > b.day \/ (a.day = b.day /\ a.ms >= b.ms)
PlusDay(a) == Ms(a.day + 1, a.ms)

\* Math.floor((a - b) / MS_PER_DAY)
FloorDays(a, b) == (a.day - b.day) - (IF a.ms < b.ms THEN 1 ELSE 0)

\* days from 1970-01-01 to day d of month m (1 .. 12) of year y in the
\* proleptic Gregorian calendar; a day past the end of its month runs on into
\* the next month, as in Date.UTC
DaysFromCivil(y, m, d) ==
  LET yy == IF m <= 2 THEN y - 1 ELSE y
      era == yy \div 400
      yoe == yy % 400
      mp == (m + 9) % 12
      doy == (153 * mp + 2) \div 5 + d - 1
      doe == yoe * 365 + yoe \div 4 - yoe \div 100 + doy
  IN  era * 146097 + doe - 719468

\* Date.UTC(year, monthIndex, day): a year of 0 .. 99 stands for 1900 + year
DateUTC(year, monthIndex, day) ==
  LET fullYear == IF year \in 0..99 THEN 1900 + year ELSE year
  IN  Ms(DaysFromCivil(fullYear, monthIndex + 1, day), 0)

\* Date.prototype.getUTCFullYear
getUTCFullYear(date) ==
  LET z == date.day + 719468
      era == z \div 146097
      doe == z % 146097
      yoe == (doe - doe \div 1460 + doe \div 36524 - doe \div 146096) \div 365
      doy == doe - (365 * yoe + yoe \div 4 - yoe \div 100)
      mp == (5 * doy + 2) \div 153
  IN  IF mp < 10 THEN yoe + era * 400 ELSE yoe + era * 400 + 1

\* the leap rule without the exceptions of the centuries
isLeapYear_julian(year) == IntRem(year, 4) = 0

isLeapYear(year) ==
  (IntRem(year, 4) = 0 /\ IntRem(year, 100) # 0) \/ IntRem(year, 400) = 0

\* Math.max(lo, Math.min(x, hi))
Clamp(x, lo, hi) ==
  LET m == IF x < hi THEN x ELSE hi
  IN  IF lo > m THEN lo ELSE m

\* the locals of toThirteenMoonDate, each as a function of its argument
thirteenMoonYear(date) ==
  LET gYear == getUTCFullYear(date)
      newYearThisYear ==
        DateUTC(gYear, THIRTEEN_MOON_NEW_YEAR_MONTH, THIRTEEN_MOON_NEW_YEAR_DAY)
  IN  IF MsGeq(date, newYearThisYear) THEN gYear ELSE gYear - 1

yearStartMs(date) ==
  DateUTC(thirteenMoonYear(date), THIRTEEN_MOON_NEW_YEAR_MONTH, THIRTEEN_MOON_NEW_YEAR_DAY)

daysSinceNewYear(date) == FloorDays(date, yearStartMs(date))

\* the Day Out of Time counted GOLDEN_RATIO_DAY + 1 days on from the new year
dotMs_dayCount(date) == Ms(yearStartMs(date).day + GOLDEN_RATIO_DAY + 1, 0)

dotMs(date) == DateUTC(thirteenMoonYear(date), DAY_OUT_OF_TIME_MONTH, DAY_OUT_OF_TIME_DAY)

isDayOutOfTime(date) == MsGeq(date, dotMs(date)) /\ ~MsGeq(date, PlusDay(dotMs(date)))

leapYearForCycle(date) == thirteenMoonYear(date) + 1

hasLeapDay(date) == isLeapYear(leapYearForCycle(date))

hunabKuMs(date) ==
  IF hasLeapDay(date) THEN DateUTC(leapYearForCycle(date), 1, 29) ELSE Ms(0, 0)

isHunabKu(date) ==
  /\ hasLeapDay(date)
  /\ MsGeq(date, hunabKuMs(date))
  /\ ~MsGeq(date, PlusDay(hunabKuMs(date)))

totalCycles(date) == thirteenMoonYear(date) + 28000

\* adjustedDay stepping back for the Day Out of Time only
adjustedDay_noLeapStep(date) ==
  IF MsGeq(date, PlusDay(dotMs(date)))
  THEN daysSinceNewYear(date) - 1
  ELSE daysSinceNewYear(date)

\* adjustedDay as it stands before the clamp
adjustedDay(date) ==
  LET afterDot == IF MsGeq(date, PlusDay(dotMs(date)))
                  THEN daysSinceNewYear(date) - 1
                  ELSE daysSinceNewYear(date)
  IN  IF hasLeapDay(date) /\ MsGeq(date, PlusDay(hunabKuMs(date)))
      THEN afterDot - 1
      ELSE afterDot

\* the three positions toThirteenMoonDate returns; the field formatted, a
\* rendering of the other fields, is left out
DayOutOfTimePosition(cycles) ==
  [threw |-> FALSE,
   moonNumber |-> 0,
   moonName |-> "Day Out of Time",
   dayOfMoon |-> 0,
   galacticSignature |-> "Green Central Sun",
   harmonicTone |-> "infinity",
   arc |-> "phi-point",
   dayOfYear |-> GOLDEN_RATIO_DAY + 1,
   isDayOutOfTime |-> TRUE,
   isHunabKu |-> FALSE,
   weekday |-> "Day Out of Time",
   totalCycles |-> cycles]

HunabKuPosition(cycles) ==
  [threw |-> FALSE,
   moonNumber |-> 0,
   moonName |-> "Hunab Ku Day",
   dayOfMoon |-> 0,
   galacticSignature |-> "Hunab Ku",
   harmonicTone |-> "0",
   arc |-> "Post-phi",
   dayOfYear |-> 0,
   isDayOutOfTime |-> FALSE,
   isHunabKu |-> TRUE,
   weekday |-> "Hunab Ku",
   totalCycles |-> cycles]

\* the regular position with the weekday counted from the 1-based day of the year
RegularPosition_weekdayOfDayOfYear(clamped, cycles) ==
  LET moon == THIRTEEN_MOONS[Clamp(clamped \div 28, 0, 12) + 1]
  IN  [threw |-> FALSE,
       moonNumber |-> moon.number,
       moonName |-> moon.name,
       dayOfMoon |-> IntRem(clamped, 28) + 1,
       galacticSignature |-> moon.signature,
       harmonicTone |-> moon.tone,
       arc |-> moon.arc,
       dayOfYear |-> clamped + 1,
       isDayOutOfTime |-> FALSE,
       isHunabKu |-> FALSE,
       weekday |-> THIRTEEN_MOON_WEEKDAYS[IntRem(clamped + 1, 7) + 1],
       totalCycles |-> cycles]

\* clamped is the adjusted day after Math.max(0, Math.min(adjustedDay, 363))
RegularPosition(clamped, cycles) ==
  LET moonIndex == clamped \div 28
      dayInMoon == IntRem(clamped, 28) + 1
      weekdayIndex == IntRem(clamped, 7)
      weekday == THIRTEEN_MOON_WEEKDAYS[weekdayIndex + 1]
      safeMoonIndex == Clamp(moonIndex, 0, 12)
      moon == THIRTEEN_MOONS[safeMoonIndex + 1]
  IN  [threw |-> FALSE,
       moonNumber |-> moon.number,
       moonName |-> moon.name,
       dayOfMoon |-> dayInMoon,
       galacticSignature |-> moon.signature,
       harmonicTone |-> moon.tone,
       arc |-> moon.arc,
       dayOfYear |-> clamped + 1,
       isDayOutOfTime |-> FALSE,
       isHunabKu |-> FALSE,
       weekday |-> weekday,
       totalCycles |-> cycles]

toThirteenMoonDate(date) ==
  IF isDayOutOfTime(date)
  THEN DayOutOfTimePosition(totalCycles(date))
  ELSE IF isHunabKu(date)
  THEN HunabKuPosition(totalCycles(date))
  ELSE RegularPosition(Clamp(adjustedDay(date), 0, 363), totalCycles(date))

-----------------------------------------------------------------------------
(* The calendar anchored on July 26, the second toThirteenMoonDate of the
   source; the local time zone is taken to be UTC *)

PHI_FRACTURE_DAY == 225
THIRTEEN_MOON_YEAR_START_MONTH == 6
THIRTEEN_MOON_YEAR_START_DAY == 26

\* new Date(year, 6, 26), set back a year by setFullYear when the date lies
\* before it
legacy_yearStart(date) ==
  LET year == getUTCFullYear(date)
      yearStart == DateUTC(year, THIRTEEN_MOON_YEAR_START_MONTH, THIRTEEN_MOON_YEAR_START_DAY)
  IN  IF ~MsGeq(date, yearStart)
      THEN Ms(DaysFromCivil(year - 1, THIRTEEN_MOON_YEAR_START_MONTH + 1,
                            THIRTEEN_MOON_YEAR_START_DAY), 0)
      ELSE yearStart

legacy_dayOfYear(date) == FloorDays(date, legacy_yearStart(date)) + 1

legacy_DayOutOfTimePosition(dayOfYear) ==
  [moonNumber |-> 0,
   moonName |-> "Day Out of Time",
   dayOfMoon |-> 0,
   galacticSignature |-> "Green Central Sun",
   harmonicTone |-> "Forgiveness - Release",
   arc |-> "phi-point",
   dayOfYear |-> dayOfYear,
   isDayOutOfTime |-> TRUE]

\* adjusted is the source's adjustedDay, the day of the year without the Day
\* Out of Time
legacy_RegularPosition(dayOfYear, adjusted) ==
  LET moonIndex == (adjusted - 1) \div 28
      dayOfMoon == IntRem(adjusted - 1, 28) + 1
      moon == THIRTEEN_MOONS[(IF moonIndex < 12 THEN moonIndex ELSE 12) + 1]
  IN  [moonNumber |-> moon.number,
       moonName |-> moon.name,
       dayOfMoon |-> dayOfMoon,
       galacticSignature |-> moon.signature,
       harmonicTone |-> moon.tone,
       arc |-> moon.arc,
       dayOfYear |-> dayOfYear,
       isDayOutOfTime |-> FALSE]

\* the position for a day of the year, 1 on July 26
legacy_PositionOf(dayOfYear) ==
  IF dayOfYear = PHI_FRACTURE_DAY \/ dayOfYear > 364
  THEN legacy_DayOutOfTimePosition(dayOfYear)
  ELSE legacy_RegularPosition(dayOfYear,
         IF dayOfYear > PHI_FRACTURE_DAY THEN dayOfYear - 1 ELSE dayOfYear)

legacy_toThirteenMoonDate(date) == legacy_PositionOf(legacy_dayOfYear(date))

-----------------------------------------------------------------------------
(* The space-time bridge: a position on the circle and its moon *)

SIGN_MOON_BRIDGE ==
  << [sign |-> "Ares Prime", moon |-> "Magnetic",      resonance |-> "Initiation begins"],
     [sign |-> "Vectoris",   moon |-> "Lunar",         resonance |-> "Polarity revealed"],
     [sign |-> "Solaris",    moon |-> "Electric",      resonance |-> "Energy activated"],
     [sign |-> "Liegis",     moon |-> "Self-Existing", resonance |-> "Form crystallizes"],
     [sign |-> "Alphais",    moon |-> "Overtone",      resonance |-> "Power radiates"],
     [sign |-> "Micronis",   moon |-> "Rhythmic",      resonance |-> "Balance calibrates"],
     [sign |-> "Nexus",      moon |-> "Resonant",      resonance |-> "Connection channels"],
     [sign |-> "Alchemis",   moon |-> "Galactic",      resonance |-> "Transformation integrates"],
     [sign |-> "Onyxis",     moon |-> "Solar",         resonance |-> "Intention pulses"],
     [sign |-> "Amalgamis",  moon |-> "Planetary",     resonance |-> "Manifestation perfects"],
     [sign |-> "Quintis",    moon |-> "Spectral",      resonance |-> "Liberation dissolves"],
     [sign |-> "Fallenis",   moon |-> "Crystal",       resonance |-> "Cooperation dedicates"],
     [sign |-> "Optimis",    moon |-> "Cosmic",        resonance |-> "Presence endures" ] >>

\* Math.floor(primeDegree / PHASE_SIZE) % NUM_PHASES: negative below the circle
phaseIndexOf(primeDegree) == IntRem(Floor(primeDegree, PHASE_SIZE), NUM_PHASES)

\* reading a property of the undefined entry at a negative index
UndefinedEntry == [threw |-> TRUE, message |-> "TypeError"]

\* what getSpaceTimeBridge returns for an index that has an entry
SpaceTimeBridge(phaseIndex) ==
  [threw |-> FALSE,
   sign |-> SIGN_MOON_BRIDGE[phaseIndex + 1].sign,
   moon |-> SIGN_MOON_BRIDGE[phaseIndex + 1].moon,
   resonance |-> SIGN_MOON_BRIDGE[phaseIndex + 1].resonance,
   phaseNumber |-> phaseIndex + 1,
   bijectiveTernary |-> bijectiveTernaryString(phaseIndex + 1),
   arc |-> THIRTEEN_MOONS[phaseIndex + 1].arc]

getSpaceTimeBridge(primeDegree) ==
  IF phaseIndexOf(primeDegree) < 0
  THEN UndefinedEntry
  ELSE SpaceTimeBridge(phaseIndexOf(primeDegree))

\* what getFullResonance returns; resonanceMessage, a rendering of the other
\* fields, is left out
FullResonance(phaseIndex, degreeInPhase, spatial) ==
  [threw |-> FALSE,
   spatial |-> spatial,
   temporal |-> [moonNumber |-> THIRTEEN_MOONS[phaseIndex + 1].number,
                 moonName |-> THIRTEEN_MOONS[phaseIndex + 1].name,
                 galacticSignature |-> THIRTEEN_MOONS[phaseIndex + 1].signature,
                 harmonicTone |-> THIRTEEN_MOONS[phaseIndex + 1].tone,
                 arc |-> THIRTEEN_MOONS[phaseIndex + 1].arc],
   unity |-> [phaseNumber |-> phaseIndex + 1,
              degreeInPhase |-> degreeInPhase,
              dayInMoon |-> Floor(degreeInPhase, 1) + 1,
              bijectiveTernary |-> bijectiveTernaryString(phaseIndex + 1)]]

getFullResonance(primeDegree) ==
  IF phaseIndexOf(primeDegree) < 0
  THEN UndefinedEntry
  ELSE FullResonance(phaseIndexOf(primeDegree), JsRem(primeDegree, PHASE_SIZE),
                     getSpaceTimeBridge(primeDegree))

-----------------------------------------------------------------------------
(* Arguments offered to the functions *)

\* offsets of a few EPSILON, on either side
FineOffsets == { j * FineStep : j \in (-MaxFine)..MaxFine }

\* tropical longitudes, negative ones and ones above 360 included: the grid, and
\* the neighbourhood of every quarter turn
TropicalInputs ==
  { Num(i * TropStep, 0) : i \in (-MaxTropDeg * Res)..(MaxTropDeg * Res) }
    \cup { Num(k * 90 * Unit, e) : k \in (-(MaxTropDeg \div 90))..(MaxTropDeg \div 90),
                                   e \in FineOffsets }

\* positions on the 364 circle: every image of the tropical grid in [0, 364), the
\* neighbourhood of every phase boundary, and the tropical inputs for positions
\* outside the circle
PrimeInputs ==
  { Num(i * PrimeStep, 0) : i \in 0..(PRIME_CIRCLE * 90 * Res - 1) }
    \cup { Num(k * PHASE_SIZE * Unit, e) : k \in (-NUM_PHASES)..(2 * NUM_PHASES),
                                           e \in FineOffsets }
    \cup TropicalInputs

HouseDegrees ==
  { Num(i * TropStep, 0) : i \in (-MaxHouseDeg * Res)..(MaxHouseDeg * Res) }
    \cup { Num(k * 90 * Unit, e) : k \in (-4)..4, e \in FineOffsets }

Ascendants == { Deg(k * AscStep) : k \in (-MaxAscK)..MaxAscK } \cup { Num(TropStep, 0) }

\* complete tables as getPrimeCusps builds them, and every shorter prefix of two
CuspTables ==
  { getPrimeCusps(a) : a \in Ascendants }
    \cup { SubSeq(getPrimeCusps(a), 1, n) :
             a \in { Deg(0), Deg(AscStep) }, n \in 0..(NUM_PHASES - 1) }

Representations == { "A", "B", "C" }

\* tags outside the Representation type, as an untyped caller can pass them
Tags == Representations \cup { "D", "E" }

TritB == 0..2

TritA == (-1)..1

StepCounts == (-MaxSteps)..MaxSteps

DigitSeqs == UNION { [1..n -> 1..3] : n \in 0..MaxDigits }

\* separations on the 364 circle: a grid over whole turns either way, the images
\* of the whole tropical degrees of a turn, and for every catalog entry its
\* angle and both ends of its orb, each with the positions one fine step below
\* and above it, in both directions
Separations ==
  { Num(i * (Unit \div SepRes), 0) :
      i \in (-PRIME_CIRCLE * SepRes * SepTurns)..(PRIME_CIRCLE * SepRes * SepTurns) }
    \cup { MulDiv(Deg(i), PRIME_CIRCLE, 360) : i \in (-360)..360 }
    \cup UNION { { Plus(b, Num(0, j * FineStep)), Neg(Plus(b, Num(0, j * FineStep))) } :
                   b \in UNION { { ASPECT_TYPES[k].angle,
                                    Minus(ASPECT_TYPES[k].angle, Deg(ASPECT_TYPES[k].orb)),
                                    Plus(ASPECT_TYPES[k].angle, Deg(ASPECT_TYPES[k].orb)) } :
                                  k \in 1..Len(ASPECT_TYPES) },
                   j \in (-1)..1 }

\* the tropical arc that tropicalToPrime stretches to the separation s
TropicalArc(s) == MulDiv(s, 360, PRIME_CIRCLE)

AspectBases == { Deg(k * BaseStep) : k \in (-MaxBaseK)..MaxBaseK }

PlanetNames == { "Sun", "Moon", "Mars", "Venus" }

\* tropical longitudes of the planets: in opposition, a tredecile and a square
\* from 0, one out of every orb from 0 but within orb of others, and the same
\* position a turn apart
PlanetLongs ==
  { Deg(0), Deg(180), TropicalArc(Deg(PHASE_SIZE)), TropicalArc(Deg(20)),
    Deg(-270), Deg(450) }

\* records of up to MaxPlanets planets, in the order of their keys: the keys of
\* a record are distinct
Charts ==
  UNION { { c \in [1..n -> [name : PlanetNames, long : PlanetLongs]] :
              \A i, j \in 1..n : i # j => c[i].name # c[j].name } :
          n \in 0..MaxPlanets }

\* April 1 of year y in the proleptic Gregorian calendar, in days from 1970-01-01
AprilFirst(y) == DaysFromCivil(y, 4, 1)

\* times of day: midnight, the first millisecond after it, noon, the last
\* millisecond of the day
DayTimes == { 0, 1, MS_PER_DAY \div 2, MS_PER_DAY - 1 }

\* the years around a century year that is not a leap year, one that is, and
\* the next that is not
CycleYears == UNION { (c - YearSpan)..(c + YearSpan) : c \in { 1900, 2000, 2100 } }

\* every day of every 13-moon year offered, at every time of day offered
CalendarDates ==
  { Ms(AprilFirst(y) + k, t) : y \in CycleYears, k \in 0..MaxCycleDay, t \in DayTimes }

\* July 26, the first day of the 13-moon year of the second calendar
JulyTwentySixth(y) == DaysFromCivil(y, 7, 26)

LegacyDates ==
  { Ms(JulyTwentySixth(y) + k, t) : y \in CycleYears, k \in 0..MaxCycleDay, t \in DayTimes }

\* the year of cycle 0: totalCycles is thirteenMoonYear + 28000
EpochYear == -28000

\* dates more than a year before April 1 of the epoch year, and dates of the
\* years 0 .. 99, which Date.UTC takes for 1900 .. 1999 when the function
\* computes the new year they belong to
OutOfRangeDates ==
  { Ms(AprilFirst(y) + k, t) :
      y \in ((EpochYear - MaxBeforeEpoch)..(EpochYear - 2)) \cup (0..99),
      k \in 0..MaxCycleDay, t \in DayTimes }

\* angles offered to the ternary analysis of an aspect: the catalog's angles, a
\* grid from one phase below zero over the whole circle, and the neighbourhood
\* of every half phase
AspectAngles ==
  { ASPECT_TYPES[k].angle : k \in 1..Len(ASPECT_TYPES) }
    \cup { Num(i * (Unit \div SepRes), 0) :
             i \in (-PHASE_SIZE * SepRes)..(PRIME_CIRCLE * SepRes) }
    \cup { Num(k * (PHASE_SIZE \div 2) * Unit, e) :
             k \in (-2)..(2 * NUM_PHASES), e \in FineOffsets }

ArgsOf(o) ==
  CASE o = "tropicalToPrime" -> { [tropicalDegree |-> d] : d \in TropicalInputs }
    [] o = "getSalviSignFromPrimeDegree" -> { [primeDegree |-> u] : u \in PrimeInputs }
    [] o = "getPrimeCusps" -> { [tropicalAscendant |-> a] : a \in TropicalInputs }
    [] o \in { "getHouseFromDegree", "isIn13thHouse" } ->
         { [degree |-> d, houseCusps |-> c] : d \in HouseDegrees, c \in CuspTables }
    [] o = "convertTrit" ->
         { [value |-> v, from |-> f, to |-> t] :
             v \in (-MaxTrit)..MaxTrit, f \in Tags, t \in Tags }
    [] o \in { "GF3.add", "GF3.subtract", "GF3.multiply" } ->
         { [a |-> a, b |-> b] : a \in TritB, b \in TritB }
    [] o \in { "ternaryAdd", "ternaryMultiply" } ->
         { [a |-> a, b |-> b] : a \in TritA, b \in TritA }
    [] o = "ternaryRotate" ->
         { [value |-> v, steps |-> n] : v \in TritA, n \in StepCounts }
    [] o = "GF3.negate" -> { [a |-> a] : a \in TritB }
    [] o = "toBijectiveTernary" -> { [n |-> n] : n \in (-MaxNeg)..MaxN }
    [] o = "fromBijectiveTernary" -> { [digits |-> ds] : ds \in DigitSeqs }
    [] o \in { "getAspectTernarySignature", "calculateAspectResonance" } ->
         { [angle |-> a] : a \in AspectAngles }
    [] o = "calculateAllAspects364" -> { [planets |-> c] : c \in Charts }
    [] o = "toThirteenMoonDate" -> { [date |-> d] : d \in CalendarDates }
    [] o = "legacy_toThirteenMoonDate" -> { [date |-> d] : d \in LegacyDates }
    [] o = "legacy_yearWalk" -> { [year |-> y, ms |-> t] : y \in CycleYears, t \in DayTimes }
    [] o = "yearWalk" -> { [year |-> y, ms |-> t] : y \in CycleYears, t \in DayTimes }
    [] o \in { "getSpaceTimeBridge", "getFullResonance" } ->
         { [primeDegree |-> u] : u \in PrimeInputs }
    [] o = "calculateAspect" ->
         { [degree1 |-> b, degree2 |-> Plus(b, TropicalArc(s)), use364 |-> u] :
             b \in AspectBases, s \in Separations, u \in BOOLEAN }

ConversionOps ==
  { "tropicalToPrime", "getSalviSignFromPrimeDegree", "getPrimeCusps",
    "getHouseFromDegree", "isIn13thHouse" }

TernaryOps ==
  { "convertTrit", "GF3.add", "GF3.subtract", "GF3.multiply", "GF3.negate",
    "toBijectiveTernary", "fromBijectiveTernary",
    "ternaryAdd", "ternaryMultiply", "ternaryRotate" }

AspectOps ==
  { "calculateAspect", "calculateAllAspects364", "getAspectTernarySignature",
    "calculateAspectResonance" }

\* yearWalk is a caller that maps every day of one 13-moon year in turn
CalendarOps == { "toThirteenMoonDate", "yearWalk" }

\* the calendar anchored on July 26, and a caller mapping one of its years day
\* by day
LegacyCalendarOps == { "legacy_toThirteenMoonDate", "legacy_yearWalk" }

BridgeOps == { "getSpaceTimeBridge", "getFullResonance" }

Ops == ConversionOps \cup TernaryOps \cup AspectOps \cup CalendarOps \cup BridgeOps
         \cup LegacyCalendarOps

-----------------------------------------------------------------------------
(* One call of one function *)

Pending == [pending |-> TRUE]

InitOf(ops) ==
  /\ pc = "ready"
  /\ op \in ops
  /\ arg \in ArgsOf(op)
  /\ res = Pending

\* a caller about to map a date outside the calendar's range
InitOutOfRange ==
  /\ pc = "ready"
  /\ op = "toThirteenMoonDate"
  /\ arg \in { [date |-> d] : d \in OutOfRangeDates }
  /\ res = Pending

Init == InitOf(Ops) \/ InitOutOfRange

Return(value) ==
  /\ res' = value
  /\ pc' = "done"
  /\ UNCHANGED <<op, arg>>

CallTropicalToPrime ==
  /\ pc = "ready" /\ op = "tropicalToPrime"
  /\ Return(tropicalToPrime(arg.tropicalDegree))

CallGetSalviSignFromPrimeDegree ==
  /\ pc = "ready" /\ op = "getSalviSignFromPrimeDegree"
  /\ Return(getSalviSignFromPrimeDegree(arg.primeDegree))

CallGetPrimeCusps ==
  /\ pc = "ready" /\ op = "getPrimeCusps"
  /\ Return(getPrimeCusps(arg.tropicalAscendant))

CallGetHouseFromDegree ==
  /\ pc = "ready" /\ op = "getHouseFromDegree"
  /\ Return(getHouseFromDegree(arg.degree, arg.houseCusps))

CallIsIn13thHouse ==
  /\ pc = "ready" /\ op = "isIn13thHouse"
  /\ Return(isIn13thHouse(arg.degree, arg.houseCusps))

CallConvertTrit ==
  /\ pc = "ready" /\ op = "convertTrit"
  /\ Return(convertTrit(arg.value, arg.from, arg.to))

CallGF3Add ==
  /\ pc = "ready" /\ op = "GF3.add"
  /\ Return(GF3_add(arg.a, arg.b))

CallGF3Subtract ==
  /\ pc = "ready" /\ op = "GF3.subtract"
  /\ Return(GF3_subtract(arg.a, arg.b))

CallGF3Multiply ==
  /\ pc = "ready" /\ op = "GF3.multiply"
  /\ Return(GF3_multiply(arg.a, arg.b))

CallGF3Negate ==
  /\ pc = "ready" /\ op = "GF3.negate"
  /\ Return(GF3_negate(arg.a))

CallToBijectiveTernary ==
  /\ pc = "ready" /\ op = "toBijectiveTernary"
  /\ Return(toBijectiveTernary(arg.n))

CallFromBijectiveTernary ==
  /\ pc = "ready" /\ op = "fromBijectiveTernary"
  /\ Return(fromBijectiveTernary(arg.digits))

CallCalculateAspect ==
  /\ pc = "ready" /\ op = "calculateAspect"
  /\ Return(calculateAspect(arg.degree1, arg.degree2, arg.use364))

CallCalculateAllAspects364 ==
  /\ pc = "ready" /\ op = "calculateAllAspects364"
  /\ Return(calculateAllAspects364(arg.planets))

CallGetAspectTernarySignature ==
  /\ pc = "ready" /\ op = "getAspectTernarySignature"
  /\ Return(getAspectTernarySignature(arg.angle))

CallCalculateAspectResonance ==
  /\ pc = "ready" /\ op = "calculateAspectResonance"
  /\ Return(calculateAspectResonance(arg.angle))

CallToThirteenMoonDate ==
  /\ pc = "ready" /\ op = "toThirteenMoonDate"
  /\ Return(toThirteenMoonDate(arg.date))

\* the walk at a date: the date, its position, and the number of regular days
\* met so far, this one included
WalkRecord(date, position, regularBefore) ==
  [date |-> date,
   position |-> position,
   regularDays |-> IF position.isDayOutOfTime \/ position.isHunabKu
                   THEN regularBefore
                   ELSE regularBefore + 1]

WalkAt(date, regularBefore) ==
  WalkRecord(date, toThirteenMoonDate(date), regularBefore)

\* March 31 of the year after arg.year, the last day of the walk
WalkLastDay == AprilFirst(arg.year + 1) - 1

WalkStart ==
  /\ pc = "ready" /\ op = "yearWalk"
  /\ res' = WalkAt(Ms(AprilFirst(arg.year), arg.ms), 0)
  /\ pc' = "walking"
  /\ UNCHANGED <<op, arg>>

WalkStep ==
  /\ pc = "walking" /\ op = "yearWalk"
  /\ res.date.day < WalkLastDay
  /\ res' = WalkAt(PlusDay(res.date), res.regularDays)
  /\ UNCHANGED <<pc, op, arg>>

WalkEnd ==
  /\ pc = "walking" /\ op = "yearWalk"
  /\ res.date.day = WalkLastDay
  /\ pc' = "done"
  /\ UNCHANGED <<op, arg, res>>

CallLegacyToThirteenMoonDate ==
  /\ pc = "ready" /\ op = "legacy_toThirteenMoonDate"
  /\ Return(legacy_toThirteenMoonDate(arg.date))

\* a caller maps the days of one 13-moon year of the second calendar in turn,
\* July 26 to July 25, counting the regular positions and the Days Out of Time
\* returned so far
LegacyWalkRecord(date, position, regularBefore, outOfTimeBefore) ==
  [date |-> date,
   position |-> position,
   regularDays |-> IF position.isDayOutOfTime THEN regularBefore ELSE regularBefore + 1,
   outOfTimeDays |-> IF position.isDayOutOfTime THEN outOfTimeBefore + 1
                     ELSE outOfTimeBefore]

LegacyWalkAt(date, regularBefore, outOfTimeBefore) ==
  LegacyWalkRecord(date, legacy_toThirteenMoonDate(date), regularBefore, outOfTimeBefore)

\* July 25 of the year after arg.year, the last day of the walk
LegacyWalkLastDay == JulyTwentySixth(arg.year + 1) - 1

LegacyWalkStart ==
  /\ pc = "ready" /\ op = "legacy_yearWalk"
  /\ res' = LegacyWalkAt(Ms(JulyTwentySixth(arg.year), arg.ms), 0, 0)
  /\ pc' = "walking"
  /\ UNCHANGED <<op, arg>>

LegacyWalkStep ==
  /\ pc = "walking" /\ op = "legacy_yearWalk"
  /\ res.date.day < LegacyWalkLastDay
  /\ res' = LegacyWalkAt(PlusDay(res.date), res.regularDays, res.outOfTimeDays)
  /\ UNCHANGED <<pc, op, arg>>

LegacyWalkEnd ==
  /\ pc = "walking" /\ op = "legacy_yearWalk"
  /\ res.date.day = LegacyWalkLastDay
  /\ pc' = "done"
  /\ UNCHANGED <<op, arg, res>>

CallTernaryAdd ==
  /\ pc = "ready" /\ op = "ternaryAdd"
  /\ Return(ternaryAdd(arg.a, arg.b))

CallTernaryMultiply ==
  /\ pc = "ready" /\ op = "ternaryMultiply"
  /\ Return(ternaryMultiply(arg.a, arg.b))

CallTernaryRotate ==
  /\ pc = "ready" /\ op = "ternaryRotate"
  /\ Return(ternaryRotate(arg.value, arg.steps))

CallGetSpaceTimeBridge ==
  /\ pc = "ready" /\ op = "getSpaceTimeBridge"
  /\ Return(getSpaceTimeBridge(arg.primeDegree))

CallGetFullResonance ==
  /\ pc = "ready" /\ op = "getFullResonance"
  /\ Return(getFullResonance(arg.primeDegree))

NextConversions ==
  \/ CallTropicalToPrime
  \/ CallGetSalviSignFromPrimeDegree
  \/ CallGetPrimeCusps
  \/ CallGetHouseFromDegree
  \/ CallIsIn13thHouse

NextTernary ==
  \/ CallConvertTrit
  \/ CallGF3Add
  \/ CallGF3Subtract
  \/ CallGF3Multiply
  \/ CallGF3Negate
  \/ CallToBijectiveTernary
  \/ CallFromBijectiveTernary
  \/ CallTernaryAdd
  \/ CallTernaryMultiply
  \/ CallTernaryRotate

NextAspects ==
  \/ CallCalculateAspect
  \/ CallCalculateAllAspects364
  \/ CallGetAspectTernarySignature
  \/ CallCalculateAspectResonance

NextCalendar ==
  \/ CallToThirteenMoonDate
  \/ WalkStart
  \/ WalkStep
  \/ WalkEnd

NextBridge ==
  \/ CallGetSpaceTimeBridge
  \/ CallGetFullResonance

NextLegacyCalendar ==
  \/ CallLegacyToThirteenMoonDate
  \/ LegacyWalkStart
  \/ LegacyWalkStep
  \/ LegacyWalkEnd

Next ==
  \/ NextConversions
  \/ NextTernary
  \/ NextAspects
  \/ NextCalendar
  \/ NextBridge
  \/ NextLegacyCalendar

Spec == Init /\ [][Next]_vars

\* the coordinate conversions alone, and the ternary operations alone
SpecConversions == InitOf(ConversionOps) /\ [][NextConversions]_vars

SpecTernary == InitOf(TernaryOps) /\ [][NextTernary]_vars

\* the aspect calculations alone
SpecAspects == InitOf(AspectOps) /\ [][NextAspects]_vars

\* the calendar alone, on the dates of the years offered; and on the dates
\* outside its range
SpecCalendar == InitOf(CalendarOps) /\ [][NextCalendar]_vars

SpecCalendarOutOfRange == InitOutOfRange /\ [][CallToThirteenMoonDate]_vars

\* the space-time bridge alone
SpecBridge == InitOf(BridgeOps) /\ [][NextBridge]_vars

\* the calendar anchored on July 26 alone
SpecLegacyCalendar == InitOf(LegacyCalendarOps) /\ [][NextLegacyCalendar]_vars

Done(o) == pc = "done" /\ op = o

-----------------------------------------------------------------------------
(* Properties of the coordinate conversions *)

\* x reduced into [0, n degrees) by floored modulo: x - n * floor(x / n)
FlooredMod(x, n) == Minus(x, Num(Floor(x, n) * n * Unit, 0))

\* C1: for every tropical degree d, negative ones and ones above 360 included,
\* tropicalToPrime(d) is at least 0 and strictly below 364.
C1_UnifiedDegreeInRing ==
  Done("tropicalToPrime") => (Leq(Deg(0), res) /\ Less(res, Deg(PRIME_CIRCLE)))

\* two EPSILON below 0 lands just below 364, outside the snap, not on 364
C1_Witness ==
  /\ Done("tropicalToPrime")
  /\ arg.tropicalDegree = Num(0, -2 * FinePerEps)
  /\ res.g = PRIME_CIRCLE * Unit
  /\ res.e < -2 * FinePerEps

\* C2: tropicalToPrime(d) = tropicalToPrime(d + 360 * k) for every d and every
\* integer k, positive or negative.
C2_Periodic360 ==
  Done("tropicalToPrime") =>
    \A k \in (-MaxTurns)..MaxTurns :
      tropicalToPrime(Plus(arg.tropicalDegree, Deg(360 * k))) = res

\* -350 degrees, 10 degrees and 730 degrees are the same position
C2_Witness ==
  /\ Done("tropicalToPrime")
  /\ arg.tropicalDegree = Deg(-350)
  /\ res = tropicalToPrime(Deg(10))
  /\ res = tropicalToPrime(Deg(730))
  /\ Less(Deg(10), res)

\* the table entries whose half-open interval [startDegree, endDegree) holds u
SignsHolding(u) ==
  { i \in 1..Len(SALVI_SIGNS) :
      Leq(Deg(SALVI_SIGNS[i].startDegree), u) /\ Less(u, Deg(SALVI_SIGNS[i].endDegree)) }

\* u is in [0, 364)
InRing(u) == Leq(Deg(0), u) /\ Less(u, Deg(PRIME_CIRCLE))

\* u is within EPSILON below 364, where getSalviSignFromPrimeDegree snaps it to 0
InSnap(u) == Less(Minus(Deg(PRIME_CIRCLE), EPSILON), u) /\ Less(u, Deg(PRIME_CIRCLE))

\* what C3 says of the call just made
PhaseOfFloor ==
  /\ res.signNumber = Floor(arg.primeDegree, PHASE_SIZE) + 1
  /\ res.signNumber \in 1..NUM_PHASES
  /\ res.degreeInSign = FlooredMod(arg.primeDegree, PHASE_SIZE)
  /\ Leq(Deg(0), res.degreeInSign) /\ Less(res.degreeInSign, Deg(PHASE_SIZE))
  /\ SignsHolding(arg.primeDegree) = { res.signNumber }
  /\ res.signName = SALVI_SIGNS[res.signNumber].name
  /\ SALVI_SIGNS[res.signNumber].startDegree = (res.signNumber - 1) * PHASE_SIZE
  /\ SALVI_SIGNS[res.signNumber].endDegree = res.signNumber * PHASE_SIZE
  /\ (arg.primeDegree = Deg(0) => res.signNumber = 1)

IsPrimeCuspTable(c) == \E a \in Ascendants : c = getPrimeCusps(a)

\* C4: with cusps = getPrimeCusps(asc), getHouseFromDegree(d, cusps) returns
\* house = floor(((tropicalToPrime(d) - cusps[0]) mod 364) / 28) + 1, cusps[0]
\* taken as it stands in the table; a body at the ascendant is in house 1.
C4_HouseFromCuspZero ==
  (Done("getHouseFromDegree") /\ IsPrimeCuspTable(arg.houseCusps)) =>
    /\ ~res.houseIsNaN
    /\ res.house =
         Floor(FlooredMod(Minus(tropicalToPrime(arg.degree), arg.houseCusps[1]),
                          PRIME_CIRCLE), PHASE_SIZE) + 1

\* C5: getPrimeCusps(asc) returns exactly 13 values, cusp i being
\* (tropicalToPrime(asc) + i * 28) mod 364 for i = 0..12, each in [0, 364),
\* pairwise distinct, cusp 0 being the unified ascendant.
C5_CuspTable ==
  Done("getPrimeCusps") =>
    /\ Len(res) = 13
    /\ \A i \in 1..13 :
         /\ res[i] = FlooredMod(Plus(tropicalToPrime(arg.tropicalAscendant),
                                     Deg((i - 1) * 28)), 364)
         /\ Leq(Deg(0), res[i]) /\ Less(res[i], Deg(364))
    /\ \A i, j \in 1..13 : i # j => res[i] # res[j]
    /\ res[1] = tropicalToPrime(arg.tropicalAscendant)

\* an ascendant of 350 degrees: the table starts near 354 and wraps past 364
C5_Witness ==
  /\ Done("getPrimeCusps")
  /\ arg.tropicalAscendant = Deg(350)
  /\ Len(res) = 13
  /\ Less(Deg(336), res[1])
  /\ Less(res[2], Deg(28))

\* C6: for a cusp sequence of fewer than 13 entries, the empty one included,
\* getHouseFromDegree and isIn13thHouse both raise an error; neither returns.
C6_ShortTableRaises ==
  ((Done("getHouseFromDegree") \/ Done("isIn13thHouse"))
     /\ Len(arg.houseCusps) < NUM_PHASES) => res.threw

-----------------------------------------------------------------------------
(* Properties of the ternary operations *)

\* the digits of each representation: TritA, TritB, TritC
ValidDigits(representation) ==
  CASE representation = "A" -> (-1)..1
    [] representation = "B" -> 0..2
    [] representation = "C" -> 1..3

\* C7: for every pair (X, Y) of representations A, B, C and every digit v valid
\* for X, convertTrit(v, X, Y) does not fail, its converted digit is valid for Y,
\* converting that digit back from Y to X gives v, and X to X returns v unchanged.
C7_ConvertRoundTrip ==
  (Done("convertTrit")
     /\ arg.from \in Representations /\ arg.to \in Representations
     /\ arg.value \in ValidDigits(arg.from)) =>
    /\ ~res.threw
    /\ res.converted.value \in ValidDigits(arg.to)
    /\ LET back == convertTrit(res.converted.value, arg.to, arg.from)
       IN  ~back.threw /\ back.converted.value = arg.value
    /\ (arg.from = arg.to => res.converted.value = arg.value)

\* the A digit 1 becomes the C digit 3
C7_Witness ==
  /\ Done("convertTrit")
  /\ arg.value = 1 /\ arg.from = "A" /\ arg.to = "C"
  /\ ~res.threw
  /\ res.converted.value = 3

\* C8: convertTrit fails for every (from, to) in which at least one tag is not
\* A, B or C, the two tags being the same unrecognized tag included, and returns
\* no conversion result then.
C8_UnrecognizedTagFails ==
  (Done("convertTrit")
     /\ (arg.from \notin Representations \/ arg.to \notin Representations)) => res.threw

\* C9: for all a, b, c in {0,1,2}: GF3.add(a,b) is in {0,1,2}, add is commutative
\* and associative; GF3.subtract, GF3.multiply and GF3.negate return values in
\* {0,1,2}; add(subtract(a,b), b) = a and add(a, negate(a)) = 0.
C9_GF3Laws ==
  /\ Done("GF3.add") =>
       /\ res \in TritB
       /\ res = GF3_add(arg.b, arg.a)
       /\ \A c \in TritB : GF3_add(res, c) = GF3_add(arg.a, GF3_add(arg.b, c))
  /\ Done("GF3.subtract") => (res \in TritB /\ GF3_add(res, arg.b) = arg.a)
  /\ Done("GF3.multiply") => res \in TritB
  /\ Done("GF3.negate") => (res \in TritB /\ GF3_add(arg.a, res) = 0)

\* 0 - 2, where the truncating remainder is negative before the correction
C9_Witness ==
  /\ Done("GF3.subtract")
  /\ arg.a = 0 /\ arg.b = 2
  /\ res = 1

\* C10: for every n >= 1 offered, toBijectiveTernary(n) returns a non-empty
\* sequence of digits in {1,2,3} that fromBijectiveTernary decodes to n, and no
\* other positive integer has the same encoding.
C10_BijectiveRoundTrip ==
  (Done("toBijectiveTernary") /\ arg.n >= 1) =>
    /\ Len(res) >= 1
    /\ \A i \in 1..Len(res) : res[i] \in 1..3
    /\ fromBijectiveTernary(res) = arg.n
    /\ \A m \in 1..MaxPeer : m # arg.n => toBijectiveTernary(m) # res

\* 13 is 111 in bijective base 3
C10_Witness ==
  /\ Done("toBijectiveTernary")
  /\ arg.n = 13
  /\ res = <<1, 1, 1>>
  /\ fromBijectiveTernary(res) = 13

-----------------------------------------------------------------------------
(* Properties of the aspect calculations *)

\* the separation calculateAspect classifies for the call's arguments
SeparationOfCall ==
  ShorterArc(tropicalToPrime(arg.degree1), tropicalToPrime(arg.degree2))

InHalfRing(x) == Leq(Deg(0), x) /\ Leq(x, Deg(PRIME_CIRCLE \div 2))

\* C11: for every two tropical positions, negative ones and ones above 360
\* included, the separation on the 364 circle that calculateAspect classifies
\* lies in [0, 182]
C11_SeparationInHalfRing ==
  (Done("calculateAspect") /\ arg.use364) => InHalfRing(SeparationOfCall)

\* a call whose positions, a negative one and one above 360, lie more than
\* half the circle apart has returned: the fold onto the shorter arc has acted
C11_Witness ==
  /\ Done("calculateAspect") /\ arg.use364
  /\ Less(arg.degree2, Deg(0))
  /\ Less(Deg(360), arg.degree1)
  /\ Less(Deg(PRIME_CIRCLE \div 2),
          Abs(Minus(tropicalToPrime(arg.degree1), tropicalToPrime(arg.degree2))))
  /\ InHalfRing(SeparationOfCall)

\* C12: the classification in the 364 system does not depend on the order of
\* the two positions: calculateAspect(b, a) is no match when
\* calculateAspect(a, b) is, and otherwise has the same type, exact angle, orb
\* distance and ternary data
C12_ClassificationSymmetric ==
  (Done("calculateAspect") /\ arg.use364) =>
    LET swapped == calculateAspect(arg.degree2, arg.degree1, TRUE)
    IN  /\ swapped.isNull = res.isNull
        /\ ~res.isNull =>
              /\ swapped.type = res.type
              /\ swapped.exact = res.exact
              /\ swapped.orb = res.orb
              /\ swapped.harmonic = res.harmonic
              /\ swapped.ternary = res.ternary

\* a call on two different positions, the first one ahead of the second by a
\* trine that is not exact, has returned the trine
C12_Witness ==
  /\ Done("calculateAspect") /\ arg.use364
  /\ Less(arg.degree2, arg.degree1)
  /\ ~res.isNull
  /\ res.type = "trine"
  /\ Less(Deg(0), res.orb)

\* the order in which the catalog is declared
DeclaredOrder ==
  << "conjunction", "opposition", "trine", "square", "sextile", "quintile",
     "septile", "novile", "tredecile", "quincunx" >>

\* the catalog entries whose angle is within their orb of the separation, the
\* orb's ends included
EntriesWithin(separation) ==
  { k \in 1..Len(ASPECT_TYPES) :
      LET d == Minus(separation, ASPECT_TYPES[k].angle)
      IN  /\ Leq(Neg(Deg(ASPECT_TYPES[k].orb)), d)
          /\ Leq(d, Deg(ASPECT_TYPES[k].orb)) }

\* C13: calculateAspect returns the first catalog entry, in the declared order
\* conjunction .. quincunx, whose angle is within its orb of the separation
\* (ends included), and returns null, raising nothing, exactly when there is
\* no such entry
C13_FirstEntryWithinOrb ==
  (Done("calculateAspect") /\ arg.use364) =>
    LET within == EntriesWithin(SeparationOfCall)
    IN  /\ [k \in 1..Len(ASPECT_TYPES) |-> ASPECT_TYPES[k].type] = DeclaredOrder
        /\ res.isNull <=> within = {}
        /\ ~res.isNull =>
              LET first == CHOOSE k \in within : \A j \in within : k <= j
              IN  /\ res.type = DeclaredOrder[first]
                  /\ res.exact = ASPECT_TYPES[first].angle

\* a call whose separation is exactly at the end of the sextile's orb has
\* returned the sextile
C13_Witness ==
  /\ Done("calculateAspect") /\ arg.use364
  /\ ~res.isNull
  /\ res.type = "sextile"
  /\ res.orb = Deg(4)
  /\ Less(res.exact, SeparationOfCall)

\* the resonance labels of the catalog, by resonance class 0, 1, 2
ResonanceLabel == << "Completion", "Initiation", "Manifestation" >>

\* C14: the phaseCount a matched aspect carries is round(angle / 28), its gf3
\* is phaseCount mod 3 and its label is Completion, Initiation, Manifestation
\* for 0, 1, 2; and getAspectTernarySignature and calculateAspectResonance,
\* called on a catalog angle, return the phaseCount and gf3 the catalog carries
C14_TernaryDataAgree ==
  /\ (Done("calculateAspect") /\ arg.use364 /\ ~res.isNull) =>
        /\ res.ternary.phaseCount = Round(res.exact, PHASE_SIZE)
        /\ res.ternary.gf3 = res.ternary.phaseCount % 3
        /\ res.ternary.resonance = ResonanceLabel[res.ternary.gf3 + 1]
        /\ res.ternary.phaseCount = getAspectTernarySignature(res.exact).phaseCount
        /\ res.ternary.gf3 = getAspectTernarySignature(res.exact).gf3
        /\ res.ternary.gf3 = calculateAspectResonance(res.exact).gf3Value
  /\ Done("getAspectTernarySignature") =>
        \A k \in 1..Len(ASPECT_TYPES) :
          arg.angle = ASPECT_TYPES[k].angle =>
            /\ res.phaseCount = ASPECT_TYPES[k].phaseCount
            /\ res.gf3 = ASPECT_TYPES[k].gf3
  /\ Done("calculateAspectResonance") =>
        \A k \in 1..Len(ASPECT_TYPES) :
          arg.angle = ASPECT_TYPES[k].angle =>
            res.gf3Value = ASPECT_TYPES[k].gf3

\* the call is calculateAspect(d1, d2) in the 364 system, d1 and d2 whole degrees
AspectCallOn(d1, d2) ==
  /\ Done("calculateAspect") /\ arg.use364
  /\ arg.degree1 = Deg(d1)
  /\ arg.degree2 = Deg(d2)

OppositionData ==
  /\ ~res.isNull
  /\ res.type = "opposition"
  /\ res.ternary.phaseCount = 6
  /\ res.ternary.gf3 = 0
  /\ res.ternary.resonance = "Completion"

\* C15 as claimed: for the positions 0 and 182 the separation is exactly 182 and
\* the pair is an opposition with phaseCount 6 and resonance class 0
C15_Claimed_OppositionAt182 ==
  AspectCallOn(0, 182) =>
    /\ SeparationOfCall = Deg(PRIME_CIRCLE \div 2)
    /\ OppositionData

\* C15: the unified positions 0 and 182 are the tropical arguments 0 and 180;
\* for these the separation is exactly 182 and the pair is an exact opposition
\* with phaseCount 6 and resonance class 0.  The tropical arguments 0 and 182
\* lie 364 - 182 * 364 / 360 apart, within the orb of the opposition, with the
\* same phaseCount and resonance class
C15_OppositionAt182 ==
  /\ AspectCallOn(0, 180) =>
        /\ tropicalToPrime(arg.degree2) = Deg(PRIME_CIRCLE \div 2)
        /\ SeparationOfCall = Deg(PRIME_CIRCLE \div 2)
        /\ OppositionData
        /\ res.exact = Deg(PRIME_CIRCLE \div 2)
        /\ res.orb = Deg(0)
  /\ AspectCallOn(0, 182) =>
        /\ SeparationOfCall =
             Minus(Deg(PRIME_CIRCLE), MulDiv(Deg(PRIME_CIRCLE \div 2), PRIME_CIRCLE, 360))
        /\ OppositionData
        /\ res.orb = Minus(Deg(PRIME_CIRCLE \div 2), SeparationOfCall)

\* calculateAspect(0, 180) has returned the exact opposition
C15_Witness ==
  /\ AspectCallOn(0, 180)
  /\ OppositionData
  /\ res.orb = Deg(0)

\* the pairs of planets of a chart, first index before second, whose aspect
\* calculateAspect matches
MatchingPairs(planets) ==
  { p \in (1..Len(planets)) \X (1..Len(planets)) :
      /\ p[1] < p[2]
      /\ ~calculateAspect(planets[p[1]].long, planets[p[2]].long, TRUE).isNull }

\* p comes before q by first index, then by second index
PairBefore(p, q) == p[1] < q[1] \/ (p[1] = q[1] /\ p[2] < q[2])

CatalogOrb(type) ==
  LET k == CHOOSE i \in 1..Len(ASPECT_TYPES) : ASPECT_TYPES[i].type = type
  IN  Deg(ASPECT_TYPES[k].orb)

\* C16: calculateAllAspects364 emits one entry for every pair of different
\* planets whose aspect calculateAspect matches and none for any other pair,
\* never one of a planet with itself, in the order of first index then second
\* index of the chart's keys; and every entry has
\* orb = |angle - exactAngle| <= the catalog's orb of its aspect
C16_AllPairsOnceInOrder ==
  Done("calculateAllAspects364") =>
    LET planets == arg.planets
        matching == MatchingPairs(planets)
    IN  /\ Len(res) = Cardinality(matching)
        /\ \A p \in matching :
              LET k == 1 + Cardinality({ q \in matching : PairBefore(q, p) })
                  aspect == calculateAspect(planets[p[1]].long, planets[p[2]].long, TRUE)
              IN  /\ res[k].planet1 = planets[p[1]].name
                  /\ res[k].planet2 = planets[p[2]].name
                  /\ res[k].aspect = aspect.type
                  /\ res[k].exactAngle = aspect.exact
        /\ \A k \in 1..Len(res) :
              /\ res[k].planet1 # res[k].planet2
              /\ res[k].orb = Abs(Minus(res[k].angle, res[k].exactAngle))
              /\ Leq(res[k].orb, CatalogOrb(res[k].aspect))
              /\ InHalfRing(res[k].angle)

\* a chart of three planets has been worked through: two of its three pairs
\* are emitted and one is not
C16_Witness ==
  /\ Done("calculateAllAspects364")
  /\ Len(arg.planets) = 3
  /\ Len(res) = 2
  /\ res[1].planet1 = arg.planets[1].name
  /\ res[2].planet2 = arg.planets[3].name

-----------------------------------------------------------------------------
(* Properties of the 13-moon calendar *)

\* the 13-moon year a date falls in by the civil calendar: the year whose
\* April 1 is the last one not after the date
CycleYearOf(date) ==
  CHOOSE y \in UNION { (c - YearSpan - 1)..(c + YearSpan + 2) : c \in { 1900, 2000, 2100 } } :
    AprilFirst(y) <= date.day /\ date.day < AprilFirst(y + 1)

\* whole days from April 1 of the date's 13-moon year to the date
DaysAfterAprilFirst(date) == date.day - AprilFirst(CycleYearOf(date))

\* the walk has mapped the date res.date
Walking == op = "yearWalk" /\ pc \in { "walking", "done" }

GregorianLeap(y) == y % 4 = 0 /\ (y % 100 # 0 \/ y % 400 = 0)

\* the date is February 29 of a year y that has one
IsFebruary29Of(date, y) ==
  /\ GregorianLeap(y)
  /\ date.day = DaysFromCivil(y, 2, 1) + 28
  /\ date.day = DaysFromCivil(y, 3, 1) - 1

IsRegular(position) == ~position.isDayOutOfTime /\ ~position.isHunabKu

BeforeEpoch(date) == date.day < AprilFirst(EpochYear - 1)

\* the date lies more than a year before the new year toThirteenMoonDate
\* computes for it
BeforeComputedAnchor(date) == date.day < yearStartMs(date).day - 366

\* C20: toThirteenMoonDate of a date outside the supported range, more than a
\* year before the epoch anchor, fails with DateOutOfRange and returns no
\* position
C20_OutOfRangeFails ==
  (Done("toThirteenMoonDate")
     /\ (BeforeEpoch(arg.date) \/ BeforeComputedAnchor(arg.date))) =>
    res.threw

-----------------------------------------------------------------------------
(* The space-time bridge *)

\* the phase resolvePhase finds for the position the bridge was called on
ResolvedPhase == getSalviSignFromPrimeDegree(arg.primeDegree)

\* C21: for every unified degree, negative ones and ones of 364 and above
\* included, getSpaceTimeBridge and getFullResonance return a result whose
\* phaseNumber is that of resolvePhase, whose sign is the sign of the spatial
\* table and whose moon is the moon of the temporal table at that phase, and
\* getFullResonance reports a dayInMoon of floor(degreeInPhase) + 1 within
\* 1 .. 28
C21_BridgeFollowsResolvePhase ==
  /\ Done("getSpaceTimeBridge") =>
        /\ ~res.threw
        /\ res.phaseNumber = ResolvedPhase.signNumber
        /\ res.sign = SALVI_SIGNS[res.phaseNumber].name
        /\ res.moon = THIRTEEN_MOONS[res.phaseNumber].name
  /\ Done("getFullResonance") =>
        /\ ~res.threw
        /\ res.unity.phaseNumber = ResolvedPhase.signNumber
        /\ res.spatial.phaseNumber = res.unity.phaseNumber
        /\ res.spatial.sign = SALVI_SIGNS[res.unity.phaseNumber].name
        /\ res.temporal.moonName = THIRTEEN_MOONS[res.unity.phaseNumber].name
        /\ res.temporal.moonNumber = res.unity.phaseNumber
        /\ res.unity.dayInMoon = Floor(res.unity.degreeInPhase, 1) + 1
        /\ res.unity.dayInMoon \in 1..PHASE_SIZE

-----------------------------------------------------------------------------
(* Balanced ternary operations *)

\* C22: for balanced digits a, b in {-1, 0, 1} and every integer steps,
\* negative ones and multiples of 3 included, ternaryAdd returns
\* GF3.add(a + 1, b + 1) - 1, ternaryMultiply returns
\* GF3.multiply(a + 1, b + 1) - 1, ternaryRotate returns
\* ((a + 1 + (steps mod 3, floored)) mod 3) - 1, every result is in
\* {-1, 0, 1}, and rotating by steps + 3 gives what rotating by steps gives
C22_BalancedFollowsGF3 ==
  /\ Done("ternaryAdd") =>
        /\ res.result = GF3_add(arg.a + 1, arg.b + 1) - 1
        /\ res.result \in TritA
  /\ Done("ternaryMultiply") =>
        /\ res.result = GF3_multiply(arg.a + 1, arg.b + 1) - 1
        /\ res.result \in TritA
  /\ Done("ternaryRotate") =>
        /\ res.result = (((arg.value + 1) + (arg.steps % 3)) % 3) - 1
        /\ res.result \in TritA
        /\ res.result = ternaryRotate(arg.value, arg.steps + 3).result

\* the digit 1 has been rotated by a negative number of steps that is not a
\* multiple of 3, and has come round to -1
C22_Witness ==
  /\ Done("ternaryRotate")
  /\ arg.value = 1
  /\ arg.steps < 0
  /\ arg.steps % 3 = 1
  /\ res.result = -1

-----------------------------------------------------------------------------
(* The thirteenth house *)

\* the call was given a table of 13 cusps
FullTable == Len(arg.houseCusps) = NUM_PHASES

\* C23: for every tropical degree and every table of 13 cusps,
\* getHouseFromDegree returns a house in 1 .. 13, its flag alsoIn13th is true
\* exactly when the house is 13, and isIn13thHouse returns for the same
\* arguments the boolean that flag holds
C23_ThirteenthHouseFlag ==
  /\ (Done("getHouseFromDegree") /\ FullTable) =>
        /\ ~res.houseIsNaN
        /\ res.house \in 1..NUM_PHASES
        /\ res.alsoIn13th <=> res.house = NUM_PHASES
        /\ isIn13thHouse(arg.degree, arg.houseCusps).value = res.alsoIn13th
  /\ (Done("isIn13thHouse") /\ FullTable) =>
        /\ ~res.threw
        /\ res.value = getHouseFromDegree(arg.degree, arg.houseCusps).alsoIn13th
        /\ res.value <=> getHouseFromDegree(arg.degree, arg.houseCusps).house = NUM_PHASES

\* a negative degree has been found in the thirteenth house of a table whose
\* first cusp is not at 0
C23_Witness ==
  /\ Done("isIn13thHouse")
  /\ FullTable
  /\ arg.houseCusps[1] # Deg(0)
  /\ Less(arg.degree, Deg(0))
  /\ res.value

-----------------------------------------------------------------------------
(* Weekdays *)

\* the weekday of a regular position is the name at index adjustedDay mod 7,
\* which is the name at index (dayOfMoon - 1) mod 7, and Dali on day 1
WeekdayFollows(position, date) ==
  IsRegular(position) =>
    /\ position.weekday = THIRTEEN_MOON_WEEKDAYS[(adjustedDay(date) % 7) + 1]
    /\ position.weekday = THIRTEEN_MOON_WEEKDAYS[((position.dayOfMoon - 1) % 7) + 1]
    /\ position.dayOfMoon = 1 => position.weekday = "Dali"

\* C24: for every regular date of the April-1-anchored calendar the weekday
\* is the entry of the cycle of 7 names at index adjustedDay mod 7, which is
\* the entry at index (dayOfMoon - 1) mod 7, so that a day-of-moon number has
\* one weekday in every moon of every year, and day 1 of a moon is Dali
C24_WeekdayOfDayOfMoon ==
  /\ Done("toThirteenMoonDate") => WeekdayFollows(res, arg.date)
  /\ Walking => WeekdayFollows(res.position, res.date)

\* day 28 of the Cosmic moon, after both days outside the count in a year
\* that a leap day follows, has been mapped to the last weekday, Silio
C24_Witness ==
  /\ Done("toThirteenMoonDate")
  /\ IsRegular(res)
  /\ GregorianLeap(CycleYearOf(arg.date) + 1)
  /\ res.moonNumber = NUM_PHASES
  /\ res.dayOfMoon = PHASE_SIZE
  /\ res.weekday = "Silio"

-----------------------------------------------------------------------------
(* The calendar anchored on July 26 *)

\* the walk of the July 26 calendar has mapped the date res.date
LegacyWalking == op = "legacy_yearWalk" /\ pc \in { "walking", "done" }

\* the 13-moon year walked, July 26 to July 25, has 365 days
LegacyYearOf365 == JulyTwentySixth(arg.year + 1) - JulyTwentySixth(arg.year) = 365

\* C25: on a walk, day by day, through a 13-moon year of 365 days of the
\* calendar anchored on July 26, the day reported as the Day Out of Time is
\* day 225 of the year and no other, the n-th of the other days is day
\* ((n - 1) mod 28) + 1 of moon floor((n - 1) / 28) + 1, so that the 364
\* other days take every day 1 .. 28 of every moon 1 .. 13 once, and the last
\* day of the year is day 28 of the Cosmic moon
C25_LegacyYearGrid ==
  (LegacyWalking /\ LegacyYearOf365) =>
    LET position == res.position
        n == res.regularDays
        passed == res.date.day - JulyTwentySixth(arg.year) + 1
    IN  /\ position.isDayOutOfTime <=> passed = PHI_FRACTURE_DAY
        /\ position.isDayOutOfTime => position.dayOfYear = PHI_FRACTURE_DAY
        /\ ~position.isDayOutOfTime =>
              /\ position.moonNumber = ((n - 1) \div PHASE_SIZE) + 1
              /\ position.dayOfMoon = ((n - 1) % PHASE_SIZE) + 1
        /\ res.date.day = LegacyWalkLastDay =>
              /\ res.outOfTimeDays = 1
              /\ n = NUM_PHASES * PHASE_SIZE
              /\ position.moonNumber = NUM_PHASES
              /\ position.dayOfMoon = PHASE_SIZE

-----------------------------------------------------------------------------
(* Aspects on the circle of 360 *)

\* the position lies in [0, 360)
InCircle360(x) == Leq(Deg(0), x) /\ Less(x, Deg(360))

\* the shorter of the two arcs between two positions of [0, 360)
ShorterArc360(x, y) ==
  LET across == Abs(Minus(x, y))
  IN  IF Less(Deg(180), across) THEN Minus(Deg(360), across) ELSE across

\* C26: with use364 = false and both degrees in [0, 360), the separation
\* calculateAspect uses is the shorter arc between the two positions, lies in
\* [0, 180], is the same for the degrees in either order, and the aspect
\* returned is the same for the degrees in either order
C26_Separation360Symmetric ==
  (Done("calculateAspect") /\ ~arg.use364
     /\ InCircle360(arg.degree1) /\ InCircle360(arg.degree2)) =>
    LET diff == Diff360(arg.degree1, arg.degree2)
    IN  /\ diff = ShorterArc360(arg.degree1, arg.degree2)
        /\ Leq(Deg(0), diff) /\ Leq(diff, Deg(180))
        /\ diff = Diff360(arg.degree2, arg.degree1)
        /\ res = calculateAspect(arg.degree2, arg.degree1, FALSE)

-----------------------------------------------------------------------------
(* The orb windows of the 364 catalog *)

\* the ends of the orb window of catalog entry k, kept within [0, 182]
WindowLow(k) ==
  LET low == Minus(ASPECT_TYPES[k].angle, Deg(ASPECT_TYPES[k].orb))
  IN  IF Less(low, Deg(0)) THEN Deg(0) ELSE low

WindowHigh(k) ==
  LET high == Plus(ASPECT_TYPES[k].angle, Deg(ASPECT_TYPES[k].orb))
  IN  IF Less(Deg(PRIME_CIRCLE \div 2), high) THEN Deg(PRIME_CIRCLE \div 2) ELSE high

\* C27: the orb windows [angle - orb, angle + orb] of the ten entries of the
\* 364 catalog are pairwise disjoint on [0, 182]; so the separation of a call
\* is within the orb of at most one entry, and the aspect calculateAspect
\* returns is that one entry, whatever the order of the catalog
C27_OrbWindowsDisjoint ==
  /\ Len(ASPECT_TYPES) = 10
  /\ \A i, j \in 1..Len(ASPECT_TYPES) :
        i # j => Less(WindowHigh(i), WindowLow(j)) \/ Less(WindowHigh(j), WindowLow(i))
  /\ (Done("calculateAspect") /\ arg.use364) =>
        LET within == EntriesWithin(SeparationOfCall)
        IN  /\ Cardinality(within) <= 1
            /\ ~res.isNull => within = { k \in 1..Len(ASPECT_TYPES) :
                                           ASPECT_TYPES[k].type = res.type }

\* a call whose separation is exactly at the upper end of the septile's orb,
\* 54, below the orb of the sextile declared before it, has returned the
\* septile
C27_Witness ==
  /\ Done("calculateAspect")
  /\ arg.use364
  /\ SeparationOfCall = Milli(54000)
  /\ ~res.isNull
  /\ res.type = "septile"

=============================================================================
